---- MODULE Spec2Model ----
(***************************************************************************)
(* A model of thesisv2.py: the TwoAgentEnv 1-D world and its NPCPolicy     *)
(* agents, driven by a client that constructs an environment, calls        *)
(* reset() and step(), and may write into the lists it was handed back;    *)
(* by a client that holds two environments; and by the example driver.     *)
(*                                                                         *)
(* Python lists are modelled as sequences; Python index i is index i + 1   *)
(* here (At).  List objects live in a heap of addresses, so that aliasing  *)
(* between self.positions and a returned list is something that can be     *)
(* observed.  Rewards are floats in the source; every reward the code can  *)
(* produce is a whole number of 1.0 units, so they are integers here.      *)
(***************************************************************************)
EXTENDS Integers, Sequences, FiniteSets, TLC

\* status .. nsteps describe the environment the client is working with and
\* the client's variable state; others holds the environments constructed
\* earlier that the client still has, and cur names the current one; pc is the
\* example driver's position and rng the values its random source returns next
VARIABLES status, agent_policies, positions, heap, state, result, obs, nsteps,
          others, cur, pc, rng

vars == <<status, agent_policies, positions, heap, state, result, obs, nsteps,
          others, cur, pc, rng>>

-----------------------------------------------------------------------------
(* Bounds of the model *)

\* heap addresses available for list objects
NumAddr == 5
\* the longest agent list handed to the constructor
MaxAgents == 3
\* the largest value a custom decision function returns (the least is -1)
MaxAction == 2
\* the largest value the client writes into a list it holds
MaxWrite == 1
\* step() calls explored after a reset()
MaxSteps == 4
\* values of the random source that are fixed when the driver starts
MaxDraws == 4

-----------------------------------------------------------------------------
(* Program constants *)

num_positions == 5
goal == 4
num_actions == 2

\* the null reference (no list object); list objects have addresses 1..NumAddr
None == 0
\* an argument left at its default (None) in NPCPolicy(...)
NoArg == "None"
Addr == 1..NumAddr
Free == <<>>

At(list, i) == list[i + 1]

Min(a, b) == IF a < b THEN a ELSE b
Max(a, b) == IF a > b THEN a ELSE b

-----------------------------------------------------------------------------
(* NPCPolicy *)

DefaultPolicy == "lambda"

NPCPolicy(role, policy_func, name) ==
    [role |-> role,
     policy_func |-> IF policy_func = NoArg THEN DefaultPolicy ELSE policy_func,
     name |-> IF name = NoArg THEN role ELSE name]

agent_main == NPCPolicy("Main", "ally_policy", "main_agent")
agent_ally == NPCPolicy("Ally", "ally_policy", "ally_npc")
agent_competitive == NPCPolicy("Competitive", "competitive_policy", "competitor_npc")
agent_dialogue == NPCPolicy("Dialogue", "dialogue_policy", "dialogue_npc")
\* an agent with a caller-supplied decision function, which may return anything
agent_custom == NPCPolicy("Custom", "custom_policy", NoArg)

Agents == {agent_main, agent_ally, agent_competitive, agent_dialogue, agent_custom}

CustomActions == (-1)..MaxAction

\* the values policy_func(env, state) can return
PolicyReturnRandom(policy_func, env_positions, st) == 0..(num_actions - 1)
PolicyReturn(policy_func, env_positions, st) ==
    CASE policy_func = "ally_policy" -> {1}
      [] policy_func = "competitive_policy" -> {0}
      [] policy_func = "dialogue_policy" -> 0..(num_actions - 1)
      [] policy_func = "lambda" -> {0}
      [] policy_func = "custom_policy" -> CustomActions

act(agent, env_positions, st) == PolicyReturn(agent.policy_func, env_positions, st)

AllActions == UNION {PolicyReturn(a.policy_func, <<>>, 0) : a \in Agents}

-----------------------------------------------------------------------------
(* Heap of list objects *)

FreshAddr(live) == CHOOSE a \in Addr : a \notin live /\ \A b \in Addr : b \notin live => a <= b

Live(refs) == refs \ {None}

Gc(h, live) == [a \in Addr |-> IF a \in live THEN h[a] ELSE Free]

\* the position lists of the environments the client holds besides the current one
OtherRefs(os) == {os[k].positions : k \in 1..Len(os)}

\* a list display ([0, 2]): a new list object
SharedList(live) == 1
NewList(live) == FreshAddr(live)

\* list.copy(): a new list object
ListAlias(live, a) == a
ListCopy(live, a) == FreshAddr(live)

-----------------------------------------------------------------------------
(* TwoAgentEnv *)

\* what the last call handed to the client (nargs: the length of the agent list
\* the last constructor call was given)
NoResult == [op |-> "none", nargs |-> 0, positions |-> <<>>, actions |-> <<>>,
             rewards |-> <<>>, done |-> FALSE, info |-> <<>>]

\* the agent lists a client hands to the constructor
AgentLists == UNION {[1..n -> Agents] : n \in 1..MaxAgents}
\* the agent lists of the client that holds two environments: the driver's
\* first and third matchup, which share agent_main
PairAgentLists ==
    {<<agent_main, agent_competitive>>, <<agent_main, agent_dialogue>>}
\* the agent lists of the client that also writes into returned lists
ClientAgentLists ==
    {SubSeq(<<agent_main, agent_dialogue, agent_competitive, agent_ally>>, 1, n) :
        n \in 1..MaxAgents}

AnyAgentCount(agent_list) == TRUE
ValidAgentCount(agent_list) == Len(agent_list) = 2

Init ==
    /\ status = "init"
    /\ agent_policies = <<>>
    /\ positions = None
    /\ heap = [a \in Addr |-> Free]
    /\ state = None
    /\ result = NoResult
    /\ obs = <<>>
    /\ nsteps = 0
    /\ others = <<>>
    /\ cur = 0
    /\ pc = [matchup |-> 1, at |-> "construct"]
    /\ rng = <<>>

StartPositionsZero == <<0, 0>>
StartPositions == <<0, 2>>

\* reset(): rebinds self.positions to a new list and returns a copy of it;
\* the caller binds the returned list to its variable or drops it
ResetEnv(bind, op, nargs, keep) ==
    LET p == NewList(Live({positions, state} \cup keep))
        h1 == [heap EXCEPT ![p] = StartPositions]
        c == ListCopy(Live({p, state} \cup keep), p)
        h2 == [h1 EXCEPT ![c] = h1[p]]
        st == IF bind THEN c ELSE state
    IN /\ positions' = p
       /\ state' = st
       /\ heap' = Gc(h2, Live({p, st} \cup keep))
       /\ result' = [NoResult EXCEPT !.op = op, !.nargs = nargs,
                                     !.positions = IF op = "reset" THEN h2[c] ELSE <<>>]
       /\ obs' = <<>>
       /\ nsteps' = 0

\* TwoAgentEnv(agent_list), for the client's first environment
ConstructEnv(agent_list) ==
    /\ status # "ready"
    /\ IF ValidAgentCount(agent_list)
       THEN /\ status' = "ready"
            /\ agent_policies' = agent_list
            /\ cur' = Len(others) + 1
            /\ ResetEnv(FALSE, "construct", Len(agent_list), OtherRefs(others))
       ELSE /\ status' = "AssertionError"
            /\ result' = [NoResult EXCEPT !.op = "construct", !.nargs = Len(agent_list)]
            /\ cur' = 0
            /\ UNCHANGED <<agent_policies, positions, heap, state, obs, nsteps>>
    /\ UNCHANGED others

\* env = TwoAgentEnv(agent_list)
Construct(agent_list) ==
    /\ ConstructEnv(agent_list)
    /\ UNCHANGED <<pc, rng>>

\* the current environment, as the client keeps it when it turns to another
EnvRecord ==
    [id |-> cur, agent_policies |-> agent_policies, positions |-> positions,
     result |-> result, obs |-> obs, nsteps |-> nsteps]

\* env2 = TwoAgentEnv(agent_list), while the client keeps the environments it has
ConstructNextEnv(agent_list) ==
    /\ status = "ready"
    /\ others' = Append(others, EnvRecord)
    /\ IF ValidAgentCount(agent_list)
       THEN /\ status' = "ready"
            /\ agent_policies' = agent_list
            /\ cur' = Len(others) + 2
            /\ ResetEnv(FALSE, "construct", Len(agent_list),
                        OtherRefs(others) \cup {positions})
       ELSE /\ status' = "AssertionError"
            /\ result' = [NoResult EXCEPT !.op = "construct", !.nargs = Len(agent_list)]
            /\ cur' = 0
            /\ agent_policies' = <<>>
            /\ positions' = None
            /\ obs' = <<>>
            /\ nsteps' = 0
            /\ UNCHANGED <<heap, state>>

ConstructNext(agent_list) ==
    /\ ConstructNextEnv(agent_list)
    /\ UNCHANGED <<pc, rng>>

\* the client turns to the k-th of the other environments it holds
Switch(k) ==
    /\ status = "ready"
    /\ k \in 1..Len(others)
    /\ others' = [others EXCEPT ![k] = EnvRecord]
    /\ cur' = others[k].id
    /\ agent_policies' = others[k].agent_policies
    /\ positions' = others[k].positions
    /\ result' = others[k].result
    /\ obs' = others[k].obs
    /\ nsteps' = others[k].nsteps
    /\ UNCHANGED <<status, heap, state, pc, rng>>

\* state = env.reset()  (bind)   or   env.reset()
Reset(bind) ==
    /\ status = "ready"
    /\ ResetEnv(bind, "reset", 0, OtherRefs(others))
    /\ UNCHANGED <<status, agent_policies, others, cur, pc, rng>>

\* one agent's move
MoveStrict(p, action) ==
    IF action = 0 THEN Max(0, p - 1)
    ELSE IF action = 1 THEN Min(num_positions - 1, p + 1) ELSE p
MoveNoClamp(p, action) == IF action = 0 THEN p - 1 ELSE (p + 1) % num_positions
Move(p, action) ==
    IF action = 0 THEN Max(0, p - 1) ELSE Min(num_positions - 1, p + 1)

\* the position pair agent i (Python index) finds in env.positions when its
\* act() is called: all actions are chosen before any position is updated
ActViewSequential(pos, actions, i) ==
    [j \in 1..Len(pos) |-> IF j < i + 1 /\ j <= Len(actions)
                           THEN Move(pos[j], actions[j]) ELSE pos[j]]
ActView(pos, actions, i) == pos

\* zip(self.agent_policies, self.positions)
ZipLen(policies, pos) == Min(Len(policies), Len(pos))

\* the action lists the list comprehension can produce
ActionLists(policies, pos) ==
    {actions \in [1..ZipLen(policies, pos) -> AllActions] :
        \A i \in 0..(ZipLen(policies, pos) - 1) :
            At(actions, i) \in act(At(policies, i), ActView(pos, actions, i),
                                   At(ActView(pos, actions, i), i))}

Observed(policies, pos, actions) ==
    [k \in 1..ZipLen(policies, pos) |->
        [state |-> At(ActView(pos, actions, k - 1), k - 1),
         positions |-> ActView(pos, actions, k - 1)]]

\* for i, action in enumerate(actions): self.positions[i] = ...
UpdateFirstOnly(pos, actions) ==
    [j \in 1..Len(pos) |-> IF j = 1 /\ j <= Len(actions) THEN Move(pos[j], actions[j])
                           ELSE pos[j]]
UpdatePositions(pos, actions) ==
    [j \in 1..Len(pos) |-> IF j <= Len(actions) THEN Move(pos[j], actions[j]) ELSE pos[j]]

\* rewards after the collision check
CollisionOneSided(pos) ==
    IF At(pos, 0) = At(pos, 1) /\ At(pos, 0) # goal THEN <<-1, 0>> ELSE <<0, 0>>
CollisionAnywhere(pos) == IF At(pos, 0) = At(pos, 1) THEN <<-1, -1>> ELSE <<0, 0>>
CollisionRewards(pos) ==
    IF At(pos, 0) = At(pos, 1) /\ At(pos, 0) # goal THEN <<-1, -1>> ELSE <<0, 0>>

\* rewards after the goal loop
GoalRewardsFirstOnly(pos, rewards) ==
    [j \in 1..2 |-> IF j = 1 /\ pos[j] = goal THEN rewards[j] + 1 ELSE rewards[j]]
GoalRewards(pos, rewards) ==
    [j \in 1..2 |-> IF pos[j] = goal THEN rewards[j] + 1 ELSE rewards[j]]

\* done after the goal loop
GoalDoneBoth(pos) == \A i \in 0..1 : At(pos, i) = goal
GoalDone(pos) == \E i \in 0..1 : At(pos, i) = goal

InfoStale(policies, pos) ==
    [k \in 1..ZipLen(policies, pos) |->
        [role |-> policies[k].role, name |-> policies[k].name,
         pos |-> heap[positions][k]]]
Info(policies, pos) ==
    [k \in 1..ZipLen(policies, pos) |->
        [role |-> policies[k].role, name |-> policies[k].name, pos |-> pos[k]]]

\* done and rewards at the start of every step()
DoneLatched == result.op = "step" /\ result.done
DoneInit == FALSE

\* env.step(), the returned list bound to the client's variable or dropped
StepEnv(bind) ==
    /\ status = "ready"
    /\ \E actions \in ActionLists(agent_policies, heap[positions]) :
        LET pos == heap[positions]
            newpos == UpdatePositions(pos, actions)
            rewards == GoalRewards(newpos, CollisionRewards(newpos))
            done == DoneInit \/ GoalDone(newpos)
            info == Info(agent_policies, newpos)
            h1 == [heap EXCEPT ![positions] = newpos]
            c == ListCopy(Live({positions, state} \cup OtherRefs(others)), positions)
            h2 == [h1 EXCEPT ![c] = h1[positions]]
            st == IF bind THEN c ELSE state
        IN /\ heap' = Gc(h2, Live({positions, st} \cup OtherRefs(others)))
           /\ state' = st
           /\ obs' = Observed(agent_policies, pos, actions)
           /\ result' = [op |-> "step", nargs |-> 0, positions |-> h2[c], actions |-> actions,
                         rewards |-> rewards, done |-> done, info |-> info]
           /\ nsteps' = nsteps + 1
    /\ UNCHANGED <<status, agent_policies, positions>>

\* state, rewards, done, info = env.step()  (bind)   or   env.step()
Step(bind) ==
    /\ nsteps < MaxSteps
    /\ StepEnv(bind)
    /\ UNCHANGED <<others, cur, pc, rng>>

\* state[i] = v, by the holder of a returned list
CallerWrite(i, v) ==
    /\ state # None
    /\ heap' = [heap EXCEPT ![state][i + 1] = v]
    /\ result' = [NoResult EXCEPT !.op = "write"]
    /\ obs' = <<>>
    /\ UNCHANGED <<status, agent_policies, positions, state, nsteps, others, cur, pc, rng>>

\* a client that keeps every returned list in its variable, as the driver does
Next ==
    \/ \E l \in AgentLists : Construct(l)
    \/ Reset(TRUE)
    \/ Step(TRUE)

Spec == Init /\ [][Next]_vars

\* a client that may drop a returned list and may write into the list it holds
NextClient ==
    \/ \E l \in ClientAgentLists : Construct(l)
    \/ \E b \in BOOLEAN : Reset(b)
    \/ \E b \in BOOLEAN : Step(b)
    \/ \E i \in 0..1, v \in 0..MaxWrite : CallerWrite(i, v)

SpecClient == Init /\ [][NextClient]_vars

\* a client that constructs two environments and works with either of them,
\* keeping none of the returned lists
NextPair ==
    \/ \E l \in PairAgentLists : Construct(l)
    \/ \E l \in PairAgentLists : others = <<>> /\ ConstructNext(l)
    \/ Switch(1)
    \/ Reset(FALSE)
    \/ Step(FALSE)

SpecPair == Init /\ [][NextPair]_vars

-----------------------------------------------------------------------------
(* The example driver *)

\* the agent lists of the driver's three matchups, in order
DriverMatchups ==
    <<<<agent_main, agent_competitive>>, <<agent_main, agent_ally>>,
      <<agent_main, agent_dialogue>>>>

\* for step in range(10)
DriverCap == 10

\* if done: break
DriverNeverBreaks(done) == FALSE
DriverBreaks(done) == done

\* the driver's random source (np.random) returns a sequence of values that is
\* fixed by its seed: rng is the part of it the model fixes at the start, and
\* what follows it is left open
RandomStreams == [1..MaxDraws -> 0..(num_actions - 1)]

InitDriver ==
    /\ status = "init"
    /\ agent_policies = <<>>
    /\ positions = None
    /\ heap = [a \in Addr |-> Free]
    /\ state = None
    /\ result = NoResult
    /\ obs = <<>>
    /\ nsteps = 0
    /\ others = <<>>
    /\ cur = 0
    /\ pc = [matchup |-> 1, at |-> "construct"]
    /\ rng \in RandomStreams

\* the values dialogue_policy drew in a step, in the order of the agent list
RECURSIVE Draws(_, _, _)
Draws(policies, actions, k) ==
    IF k > Len(actions) THEN <<>>
    ELSE IF policies[k].policy_func = "dialogue_policy"
         THEN <<actions[k]>> \o Draws(policies, actions, k + 1)
         ELSE Draws(policies, actions, k + 1)

\* the draws of a step are the next values of the random source
DrawFromRng(policies, actions) ==
    LET d == Draws(policies, actions, 1)
        n == Min(Len(d), Len(rng))
    IN /\ SubSeq(d, 1, n) = SubSeq(rng, 1, n)
       /\ rng' = SubSeq(rng, n + 1, Len(rng))

\* where the driver goes when a matchup's loop has ended
AfterLoop(at) ==
    IF at.matchup < Len(DriverMatchups)
    THEN [matchup |-> at.matchup + 1, at |-> "construct"]
    ELSE [at EXCEPT !.at = "exit"]

\* env = TwoAgentEnv([...]); env2 = ...; env3 = ...
DriverConstruct ==
    /\ pc.at = "construct"
    /\ IF pc.matchup = 1
       THEN ConstructEnv(DriverMatchups[pc.matchup])
       ELSE ConstructNextEnv(DriverMatchups[pc.matchup])
    /\ pc' = [pc EXCEPT !.at = IF status' = "ready" THEN "reset" ELSE "exit"]
    /\ UNCHANGED rng

\* state = env.reset()
DriverReset ==
    /\ pc.at = "reset"
    /\ status = "ready"
    /\ ResetEnv(TRUE, "reset", 0, OtherRefs(others))
    /\ pc' = [pc EXCEPT !.at = "loop"]
    /\ UNCHANGED <<status, agent_policies, others, cur, rng>>

\* one iteration of the loop: step(), print, break if done; nsteps is the
\* number of iterations made, the loop variable step + 1
DriverStep ==
    /\ pc.at = "loop"
    /\ nsteps < DriverCap
    /\ StepEnv(TRUE)
    /\ DrawFromRng(agent_policies, result'.actions)
    /\ pc' = IF DriverBreaks(result'.done) \/ nsteps' = DriverCap THEN AfterLoop(pc) ELSE pc
    /\ UNCHANGED <<others, cur>>

NextDriver ==
    \/ DriverConstruct
    \/ DriverReset
    \/ DriverStep

SpecDriver == InitDriver /\ [][NextDriver]_vars

-----------------------------------------------------------------------------
(* Properties *)

\* the environment's position pair, and whether the last call was a step()
Pos == heap[positions]
Stepped == result.op = "step"

InRange(p) == p \in 0..(num_positions - 1)

\* C1: once constructed, and after any sequence of reset() and step() calls,
\* both positions are integers in [0, 4] (whatever the actions were, so in
\* particular when they are all 0 or 1); a step in which an agent at 0 plays 0
\* leaves it at 0, and one in which an agent at 4 plays 1 leaves it at 4.
C1_BoundaryClamp ==
    /\ [](status = "ready" => Len(Pos) = 2 /\ \A i \in 0..1 : InRange(At(Pos, i)))
    /\ [][result'.op = "step" =>
            \A i \in 0..1 :
                /\ (At(Pos, i) = 0 /\ At(result'.actions, i) = 0) => At(Pos', i) = 0
                /\ (At(Pos, i) = num_positions - 1 /\ At(result'.actions, i) = 1)
                       => At(Pos', i) = num_positions - 1]_vars

\* agent 0 was at 0 and played 0, agent 1 was at 4 and played 1, and both stayed
C1_Witness ==
    /\ Stepped
    /\ result.actions = <<0, 1>>
    /\ At(obs, 0).state = 0 /\ At(obs, 1).state = 4
    /\ Pos = <<0, 4>>

\* C2: in every step() both decision functions are called, each with its own
\* pre-step position as argument and with the pre-step position pair in the
\* environment; agent 1 never finds agent 0's post-step position there.
C2_SimultaneousMove ==
    [][result'.op = "step" =>
          /\ Len(obs') = 2
          /\ \A i \in 0..1 : /\ At(obs', i).positions = Pos
                             /\ At(obs', i).state = At(Pos, i)]_vars

\* agent 0 moved in the step, and agent 1 was shown where agent 0 was before it
C2_Witness ==
    /\ Stepped
    /\ At(At(obs, 1).positions, 0) # At(Pos, 0)
    /\ At(At(obs, 0).positions, 1) # At(Pos, 1)

\* C3: whenever a step leaves both agents on the same position other than 4,
\* that step's rewards are exactly [-1.0, -1.0], whatever happened before.
C3_CollisionPrecedence ==
    (Stepped /\ At(result.positions, 0) = At(result.positions, 1)
             /\ At(result.positions, 0) # goal)
        => result.rewards = <<-1, -1>>

\* a collision on position 3 at the third step after a reset
C3_Witness ==
    /\ Stepped /\ nsteps = 3
    /\ result.positions = <<3, 3>>
    /\ result.rewards = <<-1, -1>>

\* C4: every agent that a step leaves on position 4 gets reward exactly +1.0
\* in that step and the step returns done = true, whether the other agent is
\* elsewhere or on 4 too.
C4_GoalReward ==
    Stepped =>
        \A i \in 0..1 :
            At(result.positions, i) = goal
                => At(result.rewards, i) = 1 /\ result.done = TRUE

\* both agents are on 4 after the step, and both got +1.0
C4_Witness ==
    /\ Stepped
    /\ result.positions = <<goal, goal>>
    /\ result.rewards = <<1, 1>>
    /\ result.done

\* C5: the done flag of a step is true exactly when at least one of the two
\* post-movement positions is 4.
C5_DoneIffGoal ==
    Stepped => (result.done <=> \E i \in 0..1 : At(result.positions, i) = goal)

\* done with agent 1 on 4 and agent 0 elsewhere
C5_Witness ==
    /\ Stepped /\ result.done
    /\ At(result.positions, 1) = goal
    /\ At(result.positions, 0) # goal

\* what a client can tell of the environment and of the list it holds,
\* leaving out which addresses the lists are at
ClientView ==
    <<status, agent_policies, IF positions = None THEN <<>> ELSE heap[positions],
      IF state = None THEN <<>> ELSE heap[state], positions = state,
      result, obs, nsteps>>

\* C6: reset() sets the positions to exactly [0, 2] and returns [0, 2], from
\* any state; a reset() right after a reset() changes nothing a client can see.
C6_ResetRestores ==
    /\ [](result.op = "reset" => Pos = <<0, 2>> /\ result.positions = <<0, 2>>)
    /\ [][(result.op = "reset" /\ result'.op = "reset") => ClientView' = ClientView]_vars

\* a reset() has returned [0, 2] and the client holds the returned list
C6_Witness ==
    /\ result.op = "reset"
    /\ state # None /\ heap[state] = <<0, 2>>
    /\ Pos = <<0, 2>>

AlwaysPlays(i, funcs) == Len(agent_policies) = 2 /\ At(agent_policies, i).policy_func \in funcs

\* C7: with agent 0 always playing 1 and agent 1 always playing 0, the steps
\* after a reset return [1,1] [-1,-1] false, [2,0] [0,0] false, [3,0] [0,0]
\* false and [4,0] [1,0] true.
C7_ScenarioA ==
    (Stepped /\ AlwaysPlays(0, {"ally_policy"})
             /\ AlwaysPlays(1, {"competitive_policy", "lambda"}))
        => /\ nsteps = 1 => /\ result.positions = <<1, 1>>
                            /\ result.rewards = <<-1, -1>> /\ ~result.done
           /\ nsteps = 2 => /\ result.positions = <<2, 0>>
                            /\ result.rewards = <<0, 0>> /\ ~result.done
           /\ nsteps = 3 => /\ result.positions = <<3, 0>>
                            /\ result.rewards = <<0, 0>> /\ ~result.done
           /\ nsteps = 4 => /\ result.positions = <<4, 0>>
                            /\ result.rewards = <<1, 0>> /\ result.done

\* the driver's first matchup after its fourth step
C7_Witness ==
    /\ agent_policies = <<agent_main, agent_competitive>>
    /\ Stepped /\ nsteps = 4
    /\ result.positions = <<4, 0>> /\ result.done

\* C8: with both agents always playing 1, the first step after a reset
\* returns [1,3] [0,0] false and the second [2,4] [0,1] true.
C8_ScenarioB ==
    (Stepped /\ AlwaysPlays(0, {"ally_policy"}) /\ AlwaysPlays(1, {"ally_policy"}))
        => /\ nsteps = 1 => /\ result.positions = <<1, 3>>
                            /\ result.rewards = <<0, 0>> /\ ~result.done
           /\ nsteps = 2 => /\ result.positions = <<2, 4>>
                            /\ result.rewards = <<0, 1>> /\ result.done

\* the driver's second matchup after its second step
C8_Witness ==
    /\ agent_policies = <<agent_main, agent_ally>>
    /\ Stepped /\ nsteps = 2
    /\ result.positions = <<2, 4>> /\ result.done

\* C9: the constructor succeeds exactly when it is given two agents; given
\* any other number it raises before positions are set, and no environment
\* results.
C9_AgentCount ==
    result.op = "construct" =>
        /\ status = "ready" <=> result.nargs = 2
        /\ result.nargs = 2 => Pos = <<0, 2>> /\ Len(agent_policies) = 2
        /\ result.nargs # 2 => /\ status = "AssertionError"
                               /\ positions = None
                               /\ agent_policies = <<>>

\* a constructor call with three agents has failed
C9_Witness ==
    /\ result.op = "construct" /\ result.nargs = 3
    /\ status = "AssertionError"

\* C10: the lists reset() and step() return are copies: a client's write into
\* the list it holds leaves the environment's positions as they were, and a
\* step() leaves a list the client got from an earlier call as it was.
C10_ReturnsCopies ==
    [][/\ result'.op = "write" => positions' = positions /\ Pos' = Pos
       /\ (result'.op = "step" /\ state # None /\ state' = state)
              => heap'[state] = heap[state]]_vars

\* the client has overwritten an element of the list it holds, which now
\* differs from the environment's positions
C10_Witness ==
    /\ result.op = "write"
    /\ nsteps > 0
    /\ heap[state] # Pos

Left(p) == IF p > 0 THEN p - 1 ELSE 0
Right(p) == IF p < num_positions - 1 THEN p + 1 ELSE num_positions - 1

\* C11: in a step() each agent's new position depends only on its own
\* pre-step position p and its own action: action 0 gives max(0, p - 1) and
\* action 1 gives min(4, p + 1); both agents are moved in every step.
C11_OwnMoveOnly ==
    [][result'.op = "step" =>
          /\ Len(result'.actions) = 2
          /\ \A i \in 0..1 :
                /\ At(result'.actions, i) = 0 => At(Pos', i) = Left(At(Pos, i))
                /\ At(result'.actions, i) = 1 => At(Pos', i) = Right(At(Pos, i))]_vars

\* agent 0 has moved right and agent 1 has moved left in the same step
C11_Witness ==
    /\ Stepped
    /\ result.actions = <<1, 0>>
    /\ At(Pos, 0) = At(obs, 0).state + 1
    /\ At(Pos, 1) = At(obs, 1).state - 1

\* C12: every reward of a step is -1.0, 0.0 or +1.0, and in a step that
\* returns done = true an agent on 4 gets +1.0 and an agent elsewhere 0.0, so
\* no agent gets the collision penalty together with the goal bonus.
C12_NoPenaltyWithBonus ==
    Stepped =>
        \A i \in 0..1 :
            /\ At(result.rewards, i) \in {-1, 0, 1}
            /\ result.done =>
                  At(result.rewards, i) = IF At(result.positions, i) = goal THEN 1 ELSE 0

\* a done step with agent 1 on 4 and agent 0 next to it
C12_Witness ==
    /\ Stepped /\ result.done
    /\ result.positions = <<3, 4>>
    /\ result.rewards = <<0, 1>>

\* the rewards and the done flag that follow from a step's post-movement
\* positions alone
RewardsOf(pos) ==
    IF At(pos, 0) = At(pos, 1) /\ At(pos, 0) # goal THEN <<-1, -1>>
    ELSE <<IF At(pos, 0) = goal THEN 1 ELSE 0, IF At(pos, 1) = goal THEN 1 ELSE 0>>
DoneOf(pos) == At(pos, 0) = goal \/ At(pos, 1) = goal

\* C13: after a step that returned done = true a further step() is possible
\* (as long as the model explores steps: nsteps < MaxSteps); it moves the
\* agents by the ordinary rule and computes rewards and done from its own
\* post-movement positions only, so done is false again when no agent is on 4.
C13_DoneNotLatched ==
    /\ []((Stepped /\ result.done /\ nsteps < MaxSteps) => ENABLED Step(TRUE))
    /\ [][(Stepped /\ result.done /\ result'.op = "step") =>
             /\ \A i \in 0..1 :
                   At(Pos', i) = IF At(result'.actions, i) = 0 THEN Left(At(Pos, i))
                                 ELSE Right(At(Pos, i))
             /\ result'.rewards = RewardsOf(Pos')
             /\ result'.done = DoneOf(Pos')]_vars

\* a step taken from positions with an agent on 4, reached by earlier steps,
\* has left no agent on 4 and returned done = false
C13_Witness ==
    /\ Stepped /\ nsteps >= 2
    /\ \E i \in 0..1 : At(At(obs, 0).positions, i) = goal
    /\ \A i \in 0..1 : At(Pos, i) # goal
    /\ ~result.done

\* decision functions of the source whose action is fixed by what they observe
Deterministic(policies) ==
    \A k \in 1..Len(policies) :
        policies[k].policy_func \in {"ally_policy", "competitive_policy", "lambda"}

C15_IndependentEnvs ==
    [][(cur' = cur /\ result'.op \in {"reset", "step"}) =>
          /\ others' = others
          /\ \A k \in 1..Len(others) :
                /\ others[k].positions # positions'
                /\ heap'[others[k].positions] = heap[others[k].positions]]_vars

\* the second of two environments sharing agent_main has stepped while the
\* first, stepped earlier, keeps positions of its own
C15_Witness ==
    /\ Stepped /\ cur = 2
    /\ Len(others) = 1 /\ others[1].nsteps > 0
    /\ At(agent_policies, 0) = agent_main
    /\ At(others[1].agent_policies, 0) = agent_main
    /\ heap[others[1].positions] # Pos

\* C16: the info of a step has two entries in the order of the agent list;
\* entry i has agent i's role and name and, as pos, agent i's post-movement
\* position, which is element i of the positions the step returns.
C16_InfoMatches ==
    Stepped =>
        /\ Len(result.info) = 2
        /\ \A i \in 0..1 :
              /\ At(result.info, i).role = At(agent_policies, i).role
              /\ At(result.info, i).name = At(agent_policies, i).name
              /\ At(result.info, i).pos = At(result.positions, i)
              /\ At(result.info, i).pos = At(Pos, i)

\* the info of a step of the driver's first matchup in which both agents moved
C16_Witness ==
    /\ Stepped
    /\ agent_policies = <<agent_main, agent_competitive>>
    /\ At(result.info, 0) = [role |-> "Main", name |-> "main_agent", pos |-> 2]
    /\ At(result.info, 1) = [role |-> "Competitive", name |-> "competitor_npc", pos |-> 0]
    /\ At(obs, 0).state = 1 /\ At(obs, 1).state = 1

\* C17: a matchup loop of the driver calls step() at most 10 times after its
\* reset(), and does not call step() again once a step has returned done.
C17_DriverLoopStops ==
    /\ [](nsteps <= DriverCap /\ \A k \in 1..Len(others) : others[k].nsteps <= DriverCap)
    /\ [][(Stepped /\ result.done) => result'.op # "step"]_vars

\* the driver has left its third loop on a done step, after leaving the first
\* two on done steps too
C17_Witness ==
    /\ pc = [matchup |-> 3, at |-> "exit"]
    /\ Stepped /\ result.done /\ nsteps <= DriverCap
    /\ Len(others) = 2
    /\ \A k \in 1..2 : others[k].result.op = "step" /\ others[k].result.done

\* the steps of an episode: none is done before the second, the fourth is
\* done if it is taken, and a loop that has ended has ended on a done step
EpisodeEnds(res, n, ended) ==
    res.op = "step" =>
        /\ n = 1 => ~res.done
        /\ n >= 4 => res.done
        /\ ended => res.done /\ n \in 2..4

\* C18: with agent 0 always playing 1, as in the driver's matchups, an
\* episode reaches done = true at step 2 at the earliest and at step 4 at the
\* latest, whatever agent 1 plays, so no driver loop ends by its 10-step cap.
C18_DoneBetweenSteps2And4 ==
    /\ AlwaysPlays(0, {"ally_policy"}) => EpisodeEnds(result, nsteps, pc.at = "exit")
    /\ \A k \in 1..Len(others) :
          /\ others[k].result.op = "step"
          /\ EpisodeEnds(others[k].result, others[k].nsteps, TRUE)

\* the first matchup has ended at its fourth step and the third, with the
\* random agent, at its second
C18_Witness ==
    /\ pc = [matchup |-> 3, at |-> "exit"]
    /\ Stepped /\ result.done /\ nsteps = 2
    /\ others[1].nsteps = 4 /\ others[1].result.done

\* C19: an action other than 0 moves the agent right: with an action outside
\* {0, 1} the position becomes min(4, p + 1), the step returns as usual, and
\* the positions stay within [0, 4].
C19_InvalidActionMovesRight ==
    /\ [](status = "ready" => \A i \in 0..1 : InRange(At(Pos, i)))
    /\ [][result'.op = "step" =>
            /\ status' = "ready"
            /\ \A i \in 0..1 :
                  At(result'.actions, i) \notin {0, 1}
                      => At(Pos', i) = Right(At(Pos, i))]_vars

\* agent 0 has moved right on action -1, and agent 1 has stayed on 4 on action 2
C19_Witness ==
    /\ Stepped
    /\ result.actions = <<-1, 2>>
    /\ At(obs, 0).state = 1 /\ At(Pos, 0) = 2
    /\ At(obs, 1).state = 4 /\ At(Pos, 1) = 4
====
